---- MODULE Spec2Model ----
(***************************************************************************)
(* Model of calendar.py (Economic Calendar Parser).                        *)
(*                                                                         *)
(* Text is modelled as a sequence of tokens.  A token is one character     *)
(* wherever the code looks at characters (parse_number, the "|" of         *)
(* sha1_id); a longer token stands for a run of characters that no         *)
(* operation splits.  Python's None is the one-token text None, which is   *)
(* no text of any input domain.  A float is carried as the text of its     *)
(* repr ("5000.0"), computed in exact decimal arithmetic.                  *)
(***************************************************************************)
EXTENDS Integers, Sequences, FiniteSets, TLC

VARIABLES
    pc,         \* position of the running program
    sys_tz,     \* the machine's local time zone (what tzlocal() gives)
    s,          \* parse_number: the argument
    num_out,    \* parse_number: the returned value
    dt_str,     \* convert_time: the arguments
    tz_from,
    tz_to,
    time_out,   \* convert_time: the returned pair
    tupA,       \* sha1_id: two argument tuples and their ids
    tupB,
    idA,
    idB,
    countries,  \* args.countries and args.importance, the allow-lists
    importance,
    resp,       \* the response of the last request: status and rows
    evs,        \* the list the last fetch returned
    todo,       \* main: the providers still to be fetched
    all_events, \* main: the events of all providers
    out_files,  \* main: what save_csv and save_json wrote
    exit_code,  \* the status main exited with, None while running
    db,         \* the rows of the SQLite table events, in insertion order
    written,    \* history: every event handed to save_sqlite so far, in order
    clock,      \* notify_upcoming: the UTC minute datetime.now reads
    window,     \* notify_upcoming: the arguments
    tz_name,
    printed     \* notify_upcoming: the lines printed

numVars == <<s, num_out>>
timeVars == <<dt_str, tz_from, tz_to, time_out>>
idVars == <<tupA, tupB, idA, idB>>
fetchVars == <<countries, importance, resp, evs>>
mainVars == <<todo, all_events, out_files, exit_code>>
dbVars == <<db, written>>
notifyVars == <<clock, window, tz_name, printed>>
vars == <<pc, sys_tz, numVars, timeVars, idVars, fetchVars, mainVars, dbVars,
          notifyVars>>

None == <<"None">>
Unset == <<"Unset">>

\* Python truthiness of an optional text: None and "" are falsy
Truthy(a) == a # None /\ a # <<>>

(***************************************************************************)
(* str methods                                                             *)
(***************************************************************************)
RECURSIVE LStrip(_)
LStrip(t) == IF t # <<>> /\ Head(t) = " " THEN LStrip(Tail(t)) ELSE t

RECURSIVE RStrip(_)
RStrip(t) ==
    IF t # <<>> /\ t[Len(t)] = " " THEN RStrip(SubSeq(t, 1, Len(t) - 1)) ELSE t

\* str.strip()
Strip(t) == RStrip(LStrip(t))

\* str.replace(c, ""): every occurrence of the character c is removed
RECURSIVE Replace(_, _)
Replace(t, c) ==
    IF t = <<>> THEN <<>>
    ELSE IF Head(t) = c THEN Replace(Tail(t), c)
    ELSE <<Head(t)>> \o Replace(Tail(t), c)

\* str.endswith(c)
EndsWith(t, c) == t # <<>> /\ t[Len(t)] = c

(***************************************************************************)
(* float(text) and repr(float)                                             *)
(***************************************************************************)
DigitChars == <<"0", "1", "2", "3", "4", "5", "6", "7", "8", "9">>
IsDigit(c) == \E i \in 1..10 : DigitChars[i] = c
DigitVal(c) == (CHOOSE i \in 1..10 : DigitChars[i] = c) - 1

RECURSIVE Pow10(_)
Pow10(n) == IF n = 0 THEN 1 ELSE 10 * Pow10(n - 1)

\* value of a run of digits
RECURSIVE DigitsVal(_)
DigitsVal(t) ==
    IF t = <<>> THEN 0
    ELSE DigitsVal(SubSeq(t, 1, Len(t) - 1)) * 10 + DigitVal(t[Len(t)])

\* a decimal number [neg, m, d] is (-1)^neg * m / 10^d, kept without trailing
\* zeros in the fraction
RECURSIVE Normal(_)
Normal(f) ==
    IF f.d > 0 /\ f.m % 10 = 0
    THEN Normal([neg |-> f.neg, m |-> f.m \div 10, d |-> f.d - 1])
    ELSE f

NoFloat == [neg |-> FALSE, m |-> 0 - 1, d |-> 0]

\* float(t): surrounding whitespace is accepted, then an optional sign, then
\* digits with at most one point and at least one digit.  NoFloat stands for
\* ValueError.  (Exponents, underscores, inf and nan are outside the input
\* alphabet.)
PyFloat(t) ==
    LET u == Strip(t)
        signed == u # <<>> /\ Head(u) \in {"-", "+"}
        body == IF signed THEN Tail(u) ELSE u
        dots == {i \in 1..Len(body) : body[i] = "."}
        digs == Replace(body, ".")
        frac == IF dots = {} THEN 0
                ELSE Len(body) - (CHOOSE i \in dots : TRUE)
    IN  IF /\ Cardinality(dots) <= 1
           /\ digs # <<>>
           /\ \A i \in 1..Len(digs) : IsDigit(digs[i])
        THEN Normal([neg |-> signed /\ Head(u) = "-",
                     m |-> DigitsVal(digs), d |-> frac])
        ELSE NoFloat

\* float * mult, for a power of ten mult
FloatMul(f, mult) == Normal([neg |-> f.neg, m |-> f.m * mult, d |-> f.d])

\* decimal digits of a natural number
RECURSIVE NatText(_)
NatText(n) ==
    IF n < 10 THEN <<DigitChars[n + 1]>>
    ELSE NatText(n \div 10) \o <<DigitChars[(n % 10) + 1]>>

\* the digits of n, left-padded with zeros to width w
RECURSIVE Padded(_, _)
Padded(n, w) ==
    IF w = 0 THEN <<>>
    ELSE Padded(n \div 10, w - 1) \o <<DigitChars[(n % 10) + 1]>>

\* repr(float)
FloatRepr(f) ==
    (IF f.neg THEN <<"-">> ELSE <<>>)
      \o NatText(f.m \div Pow10(f.d)) \o <<".">>
      \o (IF f.d = 0 THEN <<"0">> ELSE Padded(f.m % Pow10(f.d), f.d))

(***************************************************************************)
(* parse_number                                                            *)
(***************************************************************************)
parse_number(a) ==
    IF ~Truthy(a) THEN None
    ELSE
      LET s1 == Replace(Strip(a), ",")
          s2 == IF EndsWith(s1, "%") THEN Replace(s1, "%") ELSE s1
          mult == IF EndsWith(s2, "K") THEN 1000
                  ELSE IF EndsWith(s2, "M") THEN 1000000 ELSE 1
          s3 == IF EndsWith(s2, "K") THEN Replace(s2, "K")
                ELSE IF EndsWith(s2, "M") THEN Replace(s2, "M") ELSE s2
          f == PyFloat(s3)
      IN  IF f = NoFloat THEN None ELSE FloatRepr(FloatMul(f, mult))

(***************************************************************************)
(* Dates and time zones.  A wall-clock time is a number of minutes since   *)
(* 2024-03-01 00:00; the model covers March and April 2024.  A zone is     *)
(* [name, std, dst, trans]: its standard and summer UTC offsets in         *)
(* minutes and the UTC minute at which summer time starts.                 *)
(***************************************************************************)
UTC == [name |-> <<"UTC">>, std |-> 0, dst |-> 0, trans |-> 0]
\* summer time from 2024-03-10 07:00 UTC
NewYork == [name |-> <<"America/New_York">>, std |-> 0 - 300, dst |-> 0 - 240,
            trans |-> 9 * 1440 + 420]
\* summer time from 2024-03-31 01:00 UTC
Madrid == [name |-> <<"Europe/Madrid">>, std |-> 60, dst |-> 120,
           trans |-> 30 * 1440 + 60]
ZoneDB == {UTC, NewYork, Madrid}

\* tzinfo=None: a naive datetime
NoTz == [name |-> None, std |-> 0, dst |-> 0, trans |-> 0]

\* a fixed-offset tzinfo, as the parser attaches for "+02:00"
tzoffset(off) == [name |-> <<"tzoffset">>, std |-> off, dst |-> off, trans |-> 0]

\* dateutil.tz.tzlocal()
tzlocal == CHOOSE z \in ZoneDB : z.name = sys_tz

\* dateutil.tz.gettz(name): the local zone for an empty name, None for a name
\* that is no zone of the database (gettz does not raise)
gettz(name) ==
    IF ~Truthy(name) THEN tzlocal
    ELSE IF \E z \in ZoneDB : z.name = name
         THEN CHOOSE z \in ZoneDB : z.name = name
         ELSE NoTz

\* tzinfo.utcoffset(dt) for the wall-clock time w read in zone z
utcoffset(z, w) == IF w >= z.trans + z.std THEN z.dst ELSE z.std

\* tzinfo.fromutc: the offset of zone z at the UTC minute u
OffsetAtUtc(z, u) == IF u >= z.trans THEN z.dst ELSE z.std

\* datetime.astimezone(target).  A naive datetime is taken to be in the
\* system local zone, and a target of None means the system local zone.
astimezone(dt, target) ==
    LET src == IF dt.tz = NoTz THEN tzlocal ELSE dt.tz
        u == dt.wall - utcoffset(src, dt.wall)
        tgt == IF target = NoTz THEN tzlocal ELSE target
    IN  [wall |-> u + OffsetAtUtc(tgt, u), tz |-> tgt]

\* the UTC minute an aware or naive datetime denotes
Instant(dt) == astimezone(dt, UTC).wall

\* two-digit decimal token of 0..99
D2(n) == DigitChars[(n \div 10) + 1] \o DigitChars[(n % 10) + 1]
IsD2(tok, hi) == \E n \in 0..hi : D2(n) = tok
D2Val(tok, hi) == CHOOSE n \in 0..hi : D2(n) = tok

\* "2024-", month, "-", day of the wall-clock minute w
DateTokens(w) ==
    LET day == w \div 1440
    IN  IF day < 31 THEN <<"2024-", "03", "-", D2(day + 1)>>
        ELSE <<"2024-", "04", "-", D2(day - 31 + 1)>>

ClockTokens(w) ==
    <<D2((w % 1440) \div 60), ":", D2(w % 60)>>

\* datetime.isoformat() of an aware datetime in UTC (whole minutes)
isoformat(dt) ==
    DateTokens(dt.wall) \o <<"T">> \o ClockTokens(dt.wall) \o <<":00+00:00">>

\* datetime.strftime("%Y-%m-%d %H:%M")
strftime(dt) == DateTokens(dt.wall) \o <<" ">> \o ClockTokens(dt.wall)

ParserError == [wall |-> 0 - 1, tz |-> NoTz]

\* dateutil.parser.parse, on the formats of the model's inputs:
\*   2024-MM-DD HH:MM and 2024-MM-DDTHH:MM    -> naive datetime
\*   ... followed by :00+00:00 or :00+02:00   -> aware datetime
\* and ParserError for an empty or other text.
dateparser_parse(t) ==
    IF /\ Len(t) \in {8, 9}
       /\ t[1] = "2024-" /\ t[2] \in {"03", "04"} /\ t[3] = "-"
       /\ IsD2(t[4], 31) /\ D2Val(t[4], 31) >= 1
       /\ t[5] \in {" ", "T"}
       /\ IsD2(t[6], 23) /\ t[7] = ":" /\ IsD2(t[8], 59)
       /\ (Len(t) = 9 => t[9] \in {":00+00:00", ":00+02:00"})
    THEN [wall |-> ((IF t[2] = "03" THEN 0 ELSE 31) + D2Val(t[4], 31) - 1)
                       * 1440
                     + D2Val(t[6], 23) * 60 + D2Val(t[8], 59),
          tz |-> IF Len(t) = 8 THEN NoTz
                 ELSE IF t[9] = ":00+00:00" THEN UTC ELSE tzoffset(120)]
    ELSE ParserError

(***************************************************************************)
(* convert_time                                                            *)
(***************************************************************************)
convert_time(str, from, to) ==
    LET parsed == dateparser_parse(str)
        from_zone == IF Truthy(from) THEN gettz(from) ELSE UTC
        dt_obj == [wall |-> parsed.wall, tz |-> from_zone]
        utc_time == astimezone(dt_obj, UTC)
        local_time == astimezone(dt_obj, gettz(to))
    IN  IF parsed = ParserError THEN <<None, None>>
        ELSE <<isoformat(utc_time), strftime(local_time)>>

(***************************************************************************)
(* sha1_id                                                                 *)
(***************************************************************************)
\* "|".join(parts)
RECURSIVE Join(_)
Join(parts) ==
    IF parts = <<>> THEN <<>>
    ELSE IF Len(parts) = 1 THEN parts[1]
    ELSE parts[1] \o <<"|">> \o Join(Tail(parts))

\* [str(a) for a in args if a]
RECURSIVE TruthyOnly(_)
TruthyOnly(args) ==
    IF args = <<>> THEN <<>>
    ELSE (IF Truthy(Head(args)) THEN <<Head(args)>> ELSE <<>>)
           \o TruthyOnly(Tail(args))

\* hashlib.sha1(text).hexdigest(), taken as an injective function of the text
hexdigest(text) == <<"sha1:">> \o text

sha1_id(args) == hexdigest(Join(TruthyOnly(args)))

(***************************************************************************)
(* Providers                                                               *)
(***************************************************************************)
InList(x, list) == \E i \in 1..Len(list) : list[i] = x

\* str.lower() of the importance labels
lower(t) ==
    [i \in 1..Len(t) |->
        CASE t[i] \in {"High", "HIGH"} -> "high"
          [] t[i] \in {"Low", "LOW"} -> "low"
          [] t[i] \in {"Medium", "MEDIUM"} -> "medium"
          [] OTHER -> t[i]]

low == <<"low">>
medium == <<"medium">>
high == <<"high">>
IMPORTANCE_MAP == {<<low, low>>, <<medium, medium>>, <<high, high>>}

\* a lookup without the default: IMPORTANCE_MAP.get(imp, imp)
ImportanceOf_NoDefault(imp) ==
    IF \E kv \in IMPORTANCE_MAP : kv[1] = imp
    THEN (CHOOSE kv \in IMPORTANCE_MAP : kv[1] = imp)[2]
    ELSE imp

\* IMPORTANCE_MAP.get(imp, "medium")
ImportanceOf(imp) ==
    IF \E kv \in IMPORTANCE_MAP : kv[1] = imp
    THEN (CHOOSE kv \in IMPORTANCE_MAP : kv[1] = imp)[2]
    ELSE medium

forex_factory == <<"forex_factory">>
investing_com == <<"investing_com">>

\* the event dictionary, with its id
Event(provider, title, country, imp, times, actual, forecast, previous) ==
    [provider |-> provider, title |-> title, country |-> country,
     importance |-> ImportanceOf(imp),
     time_utc |-> times[1], time_local |-> times[2], timezone |-> <<"UTC">>,
     actual_value |-> actual, forecast_value |-> forecast,
     previous_value |-> previous,
     id |-> sha1_id(<<provider, title, country, times[1]>>)]

\* One pass of ForexFactoryProvider.fetch's loop body over a row: the list of
\* the events it appends (none or one).  A row gives the text of each cell,
\* or None for a cell that select_one does not find.  A bs4 Tag is truthy
\* whatever it contains, so "not title_cell" holds for a missing cell only.
\* A missing time cell raises AttributeError at get_text, which the loop's
\* except swallows: the row appends nothing.
FF_row(row, ctrs, imps) ==
    LET title == row.title
        country == IF row.country # None THEN row.country ELSE <<>>
        imp == IF row.impact # None THEN lower(row.impact) ELSE medium
    IN  IF row.title = None THEN <<>>
        ELSE IF ctrs # <<>> /\ ~InList(country, ctrs) THEN <<>>
        ELSE IF imps # <<>> /\ ~InList(imp, imps) THEN <<>>
        ELSE IF row.time = None THEN <<>>
        ELSE <<Event(forex_factory, title, country, imp,
                     convert_time(row.time, <<"America/New_York">>, <<"UTC">>),
                     IF row.actual # None THEN parse_number(row.actual) ELSE None,
                     IF row.forecast # None THEN parse_number(row.forecast) ELSE None,
                     IF row.previous # None THEN parse_number(row.previous) ELSE None)>>

\* One pass of InvestingProvider.fetch's loop body: row.get(attr, default)
\* for each attribute, None standing for an attribute the row lacks.
Investing_row(row, ctrs, imps) ==
    LET title == IF row.title # None THEN row.title ELSE <<>>
        country == IF row.country # None THEN row.country ELSE <<>>
        imp == lower(IF row.importance # None THEN row.importance ELSE medium)
        str == IF row.datetime # None THEN row.datetime ELSE <<>>
        times == convert_time(str, <<"UTC">>, <<"UTC">>)
    IN  IF ctrs # <<>> /\ ~InList(country, ctrs) THEN <<>>
        ELSE IF imps # <<>> /\ ~InList(imp, imps) THEN <<>>
        ELSE <<Event(investing_com, title, country, imp, times, None, None, None)>>

RECURSIVE FF_rows(_, _, _)
FF_rows(rows, ctrs, imps) ==
    IF rows = <<>> THEN <<>>
    ELSE FF_row(Head(rows), ctrs, imps) \o FF_rows(Tail(rows), ctrs, imps)

RECURSIVE Investing_rows(_, _, _)
Investing_rows(rows, ctrs, imps) ==
    IF rows = <<>> THEN <<>>
    ELSE Investing_row(Head(rows), ctrs, imps)
           \o Investing_rows(Tail(rows), ctrs, imps)

\* What requests.get(url, timeout=20) does: it returns a response with a
\* status code, or raises (ConnectionError, Timeout).
NetRaises == {"ConnectionError", "Timeout"}
NetStatus == {"200", "503"}

\* fetch: [raised, events].  requests.get is called outside any try, so its
\* exception leaves fetch; a status other than 200 returns the empty list.
ForexFactory_fetch(r, ctrs, imps) ==
    IF r.net \in NetRaises THEN [raised |-> TRUE, events |-> <<>>]
    ELSE IF r.net # "200" THEN [raised |-> FALSE, events |-> <<>>]
    ELSE [raised |-> FALSE, events |-> FF_rows(r.rows, ctrs, imps)]

Investing_fetch(r, ctrs, imps) ==
    IF r.net \in NetRaises THEN [raised |-> TRUE, events |-> <<>>]
    ELSE IF r.net # "200" THEN [raised |-> FALSE, events |-> <<>>]
    ELSE [raised |-> FALSE, events |-> Investing_rows(r.rows, ctrs, imps)]

(***************************************************************************)
(* Sinks                                                                   *)
(***************************************************************************)
\* INSERT OR REPLACE: the row of the same id is deleted, the new one appended
InsertOrReplace(table, e) ==
    Append(SelectSeq(table, LAMBDA r : r.id # e.id), e)

\* INSERT OR IGNORE of one event into the table whose primary key is id
InsertOrIgnore(table, e) ==
    IF \E i \in 1..Len(table) : table[i].id = e.id THEN table
    ELSE Append(table, e)

\* save_sqlite: the table after the loop over the events and the commit
RECURSIVE save_sqlite(_, _)
save_sqlite(table, events) ==
    IF events = <<>> THEN table
    ELSE save_sqlite(InsertOrIgnore(table, Head(events)), Tail(events))

(***************************************************************************)
(* notify_upcoming                                                         *)
(***************************************************************************)
\* str.upper() of a canonical importance
upper(t) ==
    [i \in 1..Len(t) |->
        CASE t[i] = "high" -> "HIGH"
          [] t[i] = "low" -> "LOW"
          [] t[i] = "medium" -> "MEDIUM"
          [] OTHER -> t[i]]

\* the printed line "[time_local] country . title . IMPORTANCE"
Line(e) == <<e.time_local, e.country, e.title, upper(e.importance)>>

\* datetime.now(tz=zone) when the clock reads the UTC minute u; with
\* tz=None the result is the naive local time
Now(zone, u) ==
    IF zone = NoTz THEN [wall |-> u + OffsetAtUtc(tzlocal, u), tz |-> NoTz]
    ELSE [wall |-> u + OffsetAtUtc(zone, u), tz |-> zone]

\* datetime + timedelta: wall-clock arithmetic, the tzinfo is kept
Plus(dt, minutes) == [wall |-> dt.wall + minutes, tz |-> dt.tz]

\* int(window[:-1]) parses a run of digits; anything else is ValueError
ValidWindow(w) ==
    /\ Len(w) >= 2
    /\ \A i \in 1..(Len(w) - 1) : IsDigit(w[i])

\* the timedelta of the window, in minutes
Delta(w) ==
    LET num == DigitsVal(SubSeq(w, 1, Len(w) - 1))
        unit == w[Len(w)]
    IN  IF unit = "h" THEN num * 60
        ELSE IF unit = "m" THEN num
        ELSE 24 * 60

RECURSIVE Upcoming(_, _, _)
Upcoming(events, now, until) ==
    IF events = <<>> THEN <<>>
    ELSE LET e == Head(events)
             rest == Upcoming(Tail(events), now, until)
         IN  IF ~Truthy(e.time_utc) THEN rest
             ELSE IF /\ Instant(now) <= Instant(dateparser_parse(e.time_utc))
                     /\ Instant(dateparser_parse(e.time_utc)) <= Instant(until)
                  THEN <<Line(e)>> \o rest
                  ELSE rest

\* notify_upcoming: [raised, lines]
notify_upcoming(events, w, zone_name, u) ==
    LET now == Now(gettz(zone_name), u)
    IN  IF ~ValidWindow(w) THEN [raised |-> TRUE, lines |-> <<>>]
        ELSE [raised |-> FALSE,
              lines |-> Upcoming(events, now, Plus(now, Delta(w)))]

(***************************************************************************)
(* Bounded input domains                                                   *)
(***************************************************************************)
MaxStrLen == 4

RECURSIVE TextsUpTo(_, _)
TextsUpTo(chars, n) ==
    IF n = 0 THEN {<<>>}
    ELSE LET shorter == TextsUpTo(chars, n - 1)
         IN  shorter \cup {Append(t, c) : t \in shorter, c \in chars}

NumChars == {"1", "5", "K", "M", "%", "-", ".", ",", " "}
NumInputs == TextsUpTo(NumChars, MaxStrLen) \cup {None}

\* the variables a specification does not use stay at these values
IdleNum == s = None /\ num_out = Unset
IdleTime == dt_str = <<>> /\ tz_from = <<>> /\ tz_to = <<>> /\ time_out = Unset
IdleId == tupA = Unset /\ tupB = Unset /\ idA = Unset /\ idB = Unset
\* no request made yet
NoResp == [net |-> "none", rows |-> <<>>]
NoFiles == [csv |-> None, json |-> None]
IdleFetch == countries = <<>> /\ importance = <<>> /\ resp = NoResp /\ evs = <<>>
IdleMain == todo = <<>> /\ all_events = <<>> /\ out_files = NoFiles /\ exit_code = None
IdleDb == db = <<>> /\ written = <<>>
IdleNotify == clock = 0 /\ window = <<>> /\ tz_name = <<>> /\ printed = <<>>

(***************************************************************************)
(* SpecNum: one call of parse_number on any input of the domain            *)
(***************************************************************************)
InitNum ==
    /\ pc = "num_call"
    /\ s \in NumInputs
    /\ num_out = Unset
    /\ sys_tz = <<"UTC">>
    /\ IdleTime /\ IdleId /\ IdleFetch /\ IdleMain /\ IdleDb /\ IdleNotify

Call_parse_number ==
    /\ pc = "num_call"
    /\ num_out' = parse_number(s)
    /\ pc' = "num_done"
    /\ UNCHANGED <<s, sys_tz, timeVars, idVars, fetchVars, mainVars, dbVars,
                   notifyVars>>

NextNum == Call_parse_number

SpecNum == InitNum /\ [][NextNum]_vars

(***************************************************************************)
(* SpecTime: one call of convert_time on any arguments of the domain       *)
(***************************************************************************)
TimeInputs ==
    { <<>>, <<"All Day">>,
      <<"2024-", "03", "-", "09", " ", "08", ":", "30">>,
      <<"2024-", "03", "-", "10", " ", "08", ":", "30">>,
      <<"2024-", "03", "-", "30", "T", "23", ":", "45">>,
      <<"2024-", "03", "-", "31", " ", "12", ":", "00">>,
      <<"2024-", "03", "-", "09", "T", "08", ":", "30", ":00+02:00">> }
ZoneNames == {z.name : z \in ZoneDB}
ZoneArgs == ZoneNames \cup {<<>>, <<"Not/AZone">>}

InitTime ==
    /\ pc = "time_call"
    /\ sys_tz \in ZoneNames
    /\ dt_str \in TimeInputs
    /\ tz_from \in ZoneArgs
    /\ tz_to \in ZoneArgs
    /\ time_out = Unset
    /\ IdleNum /\ IdleId /\ IdleFetch /\ IdleMain /\ IdleDb /\ IdleNotify

Call_convert_time ==
    /\ pc = "time_call"
    /\ time_out' = convert_time(dt_str, tz_from, tz_to)
    /\ pc' = "time_done"
    /\ UNCHANGED <<sys_tz, dt_str, tz_from, tz_to, numVars, idVars, fetchVars,
                   mainVars, dbVars, notifyVars>>

NextTime == Call_convert_time

SpecTime == InitTime /\ [][NextTime]_vars

(***************************************************************************)
(* SpecId: sha1_id on two argument tuples of the domain                    *)
(***************************************************************************)
Providers == {forex_factory, investing_com}
Titles == {<<>>, <<"US">>, <<"CPI">>, <<"CPI", "|", "US">>}
Countries == {<<>>, <<"US">>, <<"DE">>}
\* time_utc is None or what convert_time renders
UtcTimes == {convert_time(x, <<"UTC">>, <<"UTC">>)[1] : x \in TimeInputs}
IdTuples ==
    {<<p, t, c, u>> : p \in Providers, t \in Titles, c \in Countries, u \in UtcTimes}

InitId ==
    /\ pc = "id_call"
    /\ sys_tz = <<"UTC">>
    /\ tupA \in IdTuples
    /\ tupB \in IdTuples
    /\ idA = Unset /\ idB = Unset
    /\ IdleNum /\ IdleTime /\ IdleFetch /\ IdleMain /\ IdleDb /\ IdleNotify

Call_sha1_id ==
    /\ pc = "id_call"
    /\ idA' = sha1_id(tupA)
    /\ idB' = sha1_id(tupB)
    /\ pc' = "id_done"
    /\ UNCHANGED <<sys_tz, tupA, tupB, numVars, timeVars, fetchVars, mainVars,
                   dbVars, notifyVars>>

NextId == Call_sha1_id

SpecId == InitId /\ [][NextId]_vars

(***************************************************************************)
(* Pages: what the two sites can serve                                     *)
(***************************************************************************)
MaxRows == 2

Absent3 == <<None, None, None>>
Numbers3 == << <<"3", ".", "1", "%">>, <<"a", "b", "c">>,
               <<"2", ",", "9", "5", "0", "K">> >>
GoodTime == <<"2024-", "03", "-", "09", " ", "08", ":", "30">>

FFRow(time, title, country, impact, nums) ==
    [time |-> time, title |-> title, country |-> country, impact |-> impact,
     actual |-> nums[1], forecast |-> nums[2], previous |-> nums[3]]

\* every combination of present, empty, odd and missing cells
FFRowsAll ==
    {FFRow(tm, ti, co, im, nu) :
        tm \in {None, GoodTime, <<"All Day">>},
        ti \in {None, <<>>, <<"CPI">>},
        co \in {None, <<"US">>},
        im \in {None, <<>>, <<"High">>, <<"Low">>, <<"critical">>},
        nu \in {Absent3, Numbers3}}

\* the rows of the longer pages
FFRowsCore ==
    { FFRow(GoodTime, <<"CPI">>, <<"US">>, <<"High">>, Numbers3),
      FFRow(GoodTime, <<"CPI">>, <<"US">>, <<"Low">>, Absent3),
      FFRow(None, <<"CPI">>, <<"US">>, <<"High">>, Absent3),
      FFRow(<<"All Day">>, <<>>, None, <<"critical">>, Absent3) }

InvRow(title, country, imp, datetime) ==
    [title |-> title, country |-> country, importance |-> imp,
     datetime |-> datetime]

InvRowsAll ==
    {InvRow(ti, co, im, dt) :
        ti \in {None, <<>>, <<"CPI">>},
        co \in {None, <<"US">>},
        im \in {None, <<>>, <<"HIGH">>, <<"low">>, <<"critical">>},
        dt \in {None, GoodTime, <<"Tentative">>}}

InvRowsCore ==
    { InvRow(<<"CPI">>, <<"US">>, <<"HIGH">>, GoodTime),
      InvRow(<<"CPI">>, <<"US">>, <<"low">>, GoodTime),
      InvRow(None, <<"US">>, <<"critical">>, None),
      InvRow(<<"CPI">>, None, None, <<"Tentative">>) }

RECURSIVE ListsUpTo(_, _)
ListsUpTo(elems, n) ==
    IF n = 0 THEN {<<>>}
    ELSE LET shorter == ListsUpTo(elems, n - 1)
         IN  shorter \cup {Append(l, e) : l \in shorter, e \in elems}

FFPages == {<<r>> : r \in FFRowsAll} \cup ListsUpTo(FFRowsCore, MaxRows)
InvPages == {<<r>> : r \in InvRowsAll} \cup ListsUpTo(InvRowsCore, MaxRows)

\* a response: a status with the rows of its page, or an exception
Responses(pages) ==
    {[net |-> "200", rows |-> p] : p \in pages}
      \cup {[net |-> n, rows |-> <<>>] : n \in (NetStatus \ {"200"}) \cup NetRaises}

CountryLists == {<<>>, <<<<"US">>>>}
ImportanceLists == {<<>>, <<medium>>, <<high>>, <<<<"critical">>>>}

(***************************************************************************)
(* SpecFetch: one call of a provider's fetch                               *)
(***************************************************************************)
InitFetch ==
    /\ pc = "fetch_call"
    /\ sys_tz = <<"UTC">>
    /\ countries \in CountryLists
    /\ importance \in ImportanceLists
    /\ resp = NoResp
    /\ evs = <<>>
    /\ IdleNum /\ IdleTime /\ IdleId /\ IdleMain /\ IdleDb /\ IdleNotify

Fetch_ForexFactory ==
    /\ pc = "fetch_call"
    /\ \E r \in Responses(FFPages) :
         LET got == ForexFactory_fetch(r, countries, importance)
         IN  /\ resp' = r
             /\ evs' = got.events
             /\ pc' = IF got.raised THEN "ff_raised" ELSE "ff_returned"
    /\ UNCHANGED <<sys_tz, countries, importance, numVars, timeVars, idVars,
                   mainVars, dbVars, notifyVars>>

Fetch_Investing ==
    /\ pc = "fetch_call"
    /\ \E r \in Responses(InvPages) :
         LET got == Investing_fetch(r, countries, importance)
         IN  /\ resp' = r
             /\ evs' = got.events
             /\ pc' = IF got.raised THEN "inv_raised" ELSE "inv_returned"
    /\ UNCHANGED <<sys_tz, countries, importance, numVars, timeVars, idVars,
                   mainVars, dbVars, notifyVars>>

NextFetch == Fetch_ForexFactory \/ Fetch_Investing

SpecFetch == InitFetch /\ [][NextFetch]_vars

(***************************************************************************)
(* SpecSqlite: any number of save_sqlite calls on one database             *)
(***************************************************************************)
MaxWritten == 4

GoodTimes == convert_time(GoodTime, <<"UTC">>, <<"UTC">>)

\* three ids; two of them come with two different sets of field values
DbEvents ==
    { Event(forex_factory, <<"CPI">>, <<"US">>, high, GoodTimes, None, None, None),
      Event(forex_factory, <<"CPI">>, <<"US">>, low, GoodTimes, None, None, None),
      Event(forex_factory, <<"CPI">>, <<"DE">>, high, GoodTimes,
            parse_number(Numbers3[1]), None, None),
      Event(forex_factory, <<"CPI">>, <<"DE">>, high, GoodTimes, None, None, None),
      Event(investing_com, <<"CPI">>, <<"US">>, medium, <<None, None>>,
            None, None, None) }

InitSqlite ==
    /\ pc = "sqlite"
    /\ sys_tz = <<"UTC">>
    /\ db = <<>>
    /\ written = <<>>
    /\ IdleNum /\ IdleTime /\ IdleId /\ IdleFetch /\ IdleMain /\ IdleNotify

Call_save_sqlite ==
    /\ pc = "sqlite"
    /\ Len(written) < MaxWritten
    /\ \E events \in ListsUpTo(DbEvents, MaxWritten - Len(written)) :
         /\ db' = save_sqlite(db, events)
         /\ written' = written \o events
    /\ UNCHANGED <<pc, sys_tz, numVars, timeVars, idVars, fetchVars, mainVars,
                   notifyVars>>

NextSqlite == Call_save_sqlite

SpecSqlite == InitSqlite /\ [][NextSqlite]_vars

(***************************************************************************)
(* SpecNotify: one call of notify_upcoming                                 *)
(***************************************************************************)
MaxEvents == 2

\* 2024-03-09 12:00 UTC, and 2024-03-30 11:00 UTC (noon in Madrid, on the
\* day before summer time starts there)
Clocks == {8 * 1440 + 720, 29 * 1440 + 660}
Offsets == {0 - 1, 0, 90, 91, 1410, 1439, 1440, 1441}
Windows == {<<"2", "4", "h">>, <<"9", "0", "m">>, <<"1", "d">>, <<"h">>}

EventAt(u) ==
    LET dt == [wall |-> u, tz |-> UTC]
    IN  Event(investing_com, <<"CPI">>, <<"US">>, high,
              <<isoformat(dt), strftime(dt)>>, None, None, None)

NotifyEvents ==
    {EventAt(c + o) : c \in Clocks, o \in Offsets}
      \cup {Event(investing_com, <<"CPI">>, <<"US">>, low, <<None, None>>,
                  None, None, None)}

InitNotify ==
    /\ pc = "notify_call"
    /\ sys_tz \in ZoneNames
    /\ all_events \in ListsUpTo(NotifyEvents, MaxEvents)
    /\ clock \in Clocks
    /\ window \in Windows
    /\ tz_name \in ZoneArgs
    /\ printed = <<>>
    /\ todo = <<>> /\ out_files = NoFiles /\ exit_code = None
    /\ IdleNum /\ IdleTime /\ IdleId /\ IdleFetch /\ IdleDb

Call_notify_upcoming ==
    /\ pc = "notify_call"
    /\ LET got == notify_upcoming(all_events, window, tz_name, clock)
       IN  /\ printed' = got.lines
           /\ pc' = IF got.raised THEN "notify_raised" ELSE "notify_returned"
    /\ UNCHANGED <<sys_tz, numVars, timeVars, idVars, fetchVars, mainVars,
                   dbVars, clock, window, tz_name>>

NextNotify == Call_notify_upcoming

SpecNotify == InitNotify /\ [][NextNotify]_vars

(***************************************************************************)
(* Spec: one run of main on a fresh database                               *)
(***************************************************************************)
\* --providers: the default, or one of the two
ProviderLists == {<<forex_factory, investing_com>>, <<forex_factory>>,
                  <<investing_com>>}
\* --out-format
OutFormats == {<<"csv">>, <<"json", "sqlite">>}
\* --notify with its window, --tz and the clock; None without --notify
NotifyArgs ==
    {None, <<<<"2", "4", "h">>, <<"Europe/Madrid">>, 29 * 1440 + 660>>}

Init ==
    /\ pc = "main_fetch"
    /\ sys_tz = <<"UTC">>
    /\ countries \in CountryLists
    /\ importance \in ImportanceLists
    /\ todo \in ProviderLists
    /\ resp = NoResp
    /\ evs = <<>>
    /\ all_events = <<>>
    /\ out_files = NoFiles
    /\ exit_code = None
    /\ IdleNum /\ IdleTime /\ IdleId /\ IdleDb /\ IdleNotify

\* one pass of main's provider loop; an exception leaving fetch ends main
MainFetch(got, r) ==
    /\ resp' = r
    /\ IF got.raised
       THEN /\ pc' = "crashed"
            /\ exit_code' = <<"1">>
            /\ UNCHANGED <<evs, all_events, todo>>
       ELSE /\ evs' = got.events
            /\ all_events' = all_events \o got.events
            /\ todo' = Tail(todo)
            /\ UNCHANGED <<pc, exit_code>>
    /\ UNCHANGED <<sys_tz, countries, importance, out_files, numVars, timeVars,
                   idVars, dbVars, notifyVars>>

Main_fetch_ForexFactory ==
    /\ pc = "main_fetch"
    /\ todo # <<>>
    /\ Head(todo) = forex_factory
    /\ \E r \in Responses(FFPages) :
         MainFetch(ForexFactory_fetch(r, countries, importance), r)

Main_fetch_Investing ==
    /\ pc = "main_fetch"
    /\ todo # <<>>
    /\ Head(todo) = investing_com
    /\ \E r \in Responses(InvPages) :
         MainFetch(Investing_fetch(r, countries, importance), r)

\* "if not all_events: sys.exit(2)"
Main_no_events ==
    /\ pc = "main_fetch"
    /\ todo = <<>>
    /\ all_events = <<>>
    /\ pc' = "exited"
    /\ exit_code' = <<"2">>
    /\ UNCHANGED <<sys_tz, fetchVars, todo, all_events, out_files, numVars,
                   timeVars, idVars, dbVars, notifyVars>>

\* the sinks, the notification and sys.exit(0)
Main_sinks ==
    /\ pc = "main_fetch"
    /\ todo = <<>>
    /\ all_events # <<>>
    /\ \E fmt \in OutFormats, ntf \in NotifyArgs :
         /\ out_files' = [csv |-> IF InList("csv", fmt) THEN all_events ELSE None,
                          json |-> IF InList("json", fmt) THEN all_events ELSE None]
         /\ IF InList("sqlite", fmt)
            THEN /\ db' = save_sqlite(db, all_events)
                 /\ written' = written \o all_events
            ELSE UNCHANGED dbVars
         /\ IF ntf = None
            THEN UNCHANGED notifyVars
            ELSE /\ window' = ntf[1]
                 /\ tz_name' = ntf[2]
                 /\ clock' = ntf[3]
                 /\ printed' = notify_upcoming(all_events, ntf[1], ntf[2], ntf[3]).lines
    /\ pc' = "exited"
    /\ exit_code' = <<"0">>
    /\ UNCHANGED <<sys_tz, fetchVars, todo, all_events, numVars, timeVars, idVars>>

Next ==
    \/ Main_fetch_ForexFactory
    \/ Main_fetch_Investing
    \/ Main_no_events
    \/ Main_sinks

Spec == Init /\ [][Next]_vars

(***************************************************************************)
(* Properties                                                              *)
(***************************************************************************)
Levels == {low, medium, high}
Returned == pc \in {"ff_returned", "inv_returned"}
OneRow == Returned /\ resp.net = "200" /\ Len(resp.rows) = 1

\* the raw importance label of the one row of the page, lowercased; the
\* default label when the row has none
RowLabel ==
    LET raw == IF pc = "ff_returned" THEN resp.rows[1].impact
               ELSE resp.rows[1].importance
    IN  IF raw = None THEN medium ELSE lower(raw)
RowTitle == resp.rows[1].title
RowCountry == IF resp.rows[1].country = None THEN <<>> ELSE resp.rows[1].country
RowTime == IF pc = "ff_returned" THEN resp.rows[1].time ELSE resp.rows[1].datetime

\* C1: two argument tuples (provider, title, country, time_utc) have the same
\* id exactly when they are equal.
C1_IdInjective ==
    pc = "id_done" => ((tupA = tupB) <=> (idA = idB))

\* C2: every event a fetch returns has importance low, medium or high, and a
\* row whose label is none of the three after lowercasing gives medium.
C2_ImportanceCanonical ==
    Returned =>
        /\ \A i \in 1..Len(evs) : evs[i].importance \in Levels
        /\ (OneRow /\ Len(evs) = 1 /\ RowLabel \notin Levels
               => evs[1].importance = medium)

C2_Witness ==
    /\ OneRow /\ Len(evs) = 1
    /\ RowLabel = <<"critical">>
    /\ evs[1].importance = medium

\* what the row gives when there is no importance allow-list
RowUnfiltered ==
    IF pc = "ff_returned" THEN FF_row(resp.rows[1], countries, <<>>)
    ELSE Investing_row(resp.rows[1], countries, <<>>)

\* C3: with a non-empty importance allow-list a record is rejected exactly
\* when its canonical importance is not in the list, and every event emitted
\* has its importance in the list.
C3_RejectedIffCanonicalNotAllowed ==
    Returned /\ importance # <<>> =>
        /\ \A i \in 1..Len(evs) : InList(evs[i].importance, importance)
        /\ (OneRow /\ Truthy(RowTitle) /\ RowUnfiltered # <<>>
               => (evs = <<>> <=> ~InList(ImportanceOf(RowLabel), importance)))

\* C4: no event a fetch returns, and none handed to the sinks, has an empty
\* title.
C4_NoEmptyTitle ==
    /\ \A i \in 1..Len(evs) : evs[i].title # <<>>
    /\ \A i \in 1..Len(all_events) : all_events[i].title # <<>>

PassesCountry == countries = <<>> \/ InList(RowCountry, countries)
\* in the list by its raw label and by its canonical importance
PassesImportance ==
    \/ importance = <<>>
    \/ InList(RowLabel, importance) /\ InList(ImportanceOf(RowLabel), importance)

\* C5: a record with a non-empty title that passes both allow-lists gives
\* exactly one event; its times are absent when the time is missing or does
\* not parse.
C5_OneEventPerValidRecord ==
    OneRow /\ Truthy(RowTitle) /\ PassesCountry /\ PassesImportance =>
        /\ Len(evs) = 1
        /\ (RowTime = None \/ dateparser_parse(RowTime) = ParserError
               => evs[1].time_utc = None /\ evs[1].time_local = None)

\* C6: no fetch raises to main: whatever the request does, main goes on to
\* the zero-events check and never ends by an uncaught exception.
C6_FetchNeverRaises ==
    pc # "crashed"

RECURSIVE FirstWithId(_, _)
FirstWithId(events, id) ==
    IF Head(events).id = id THEN Head(events) ELSE FirstWithId(Tail(events), id)

WrittenIds == {written[i].id : i \in 1..Len(written)}

\* C7: the table holds exactly one row per id ever written, and the row is
\* the first event written with that id.
C7_FirstWriteWins ==
    /\ {db[i].id : i \in 1..Len(db)} = WrittenIds
    /\ \A i, j \in 1..Len(db) : db[i].id = db[j].id => i = j
    /\ \A i \in 1..Len(db) : db[i] = FirstWithId(written, db[i].id)

C7_Witness ==
    \E i, j \in 1..Len(written) :
        /\ i < j
        /\ written[i].id = written[j].id
        /\ written[i] # written[j]
        /\ \A k \in 1..(i - 1) : written[k].id # written[i].id
        /\ \E r \in 1..Len(db) : db[r] = written[i]

\* the lines of the events whose time_utc is a minute of lo..hi, in order
RECURSIVE LinesWithin(_, _, _)
LinesWithin(events, lo, hi) ==
    IF events = <<>> THEN <<>>
    ELSE LET e == Head(events)
             rest == LinesWithin(Tail(events), lo, hi)
         IN  IF e.time_utc # None
                /\ Instant(dateparser_parse(e.time_utc)) \in lo..hi
             THEN <<Line(e)>> \o rest
             ELSE rest

\* C8: notify_upcoming prints exactly the events whose time_utc t satisfies
\* now <= t <= now + window, in the order of the input.
C8_ClosedWindow ==
    pc = "notify_returned" =>
        printed = LinesWithin(all_events, clock, clock + Delta(window))

\* str.removesuffix(c): only a trailing c is removed
StripSuffix(t, c) == IF EndsWith(t, c) THEN SubSeq(t, 1, Len(t) - 1) ELSE t

\* the algorithm of C9: trim, drop the commas, strip a trailing %, then a
\* trailing K or M, parse the rest
SuffixOnlyNumber(a) ==
    IF ~Truthy(a) THEN None
    ELSE
      LET s1 == Replace(Strip(a), ",")
          s2 == StripSuffix(s1, "%")
          mult == IF EndsWith(s2, "K") THEN 1000
                  ELSE IF EndsWith(s2, "M") THEN 1000000 ELSE 1
          s3 == IF EndsWith(s2, "K") THEN StripSuffix(s2, "K")
                ELSE StripSuffix(s2, "M")
          f == PyFloat(s3)
      IN  IF f = NoFloat THEN None ELSE FloatRepr(FloatMul(f, mult))

\* C9: parse_number returns what the suffix-stripping algorithm returns: a
\* K, M or % that is not the suffix makes the result absent.
C9_SuffixOnly ==
    pc = "num_done" => num_out = SuffixOnlyNumber(s)

UnknownZone(name) == Truthy(name) /\ name \notin ZoneNames

\* C10: convert_time gives (None, None) when the text does not parse or a
\* zone name is unknown; the two results are absent together, and when
\* present they are the same instant.
C10_AbsentOnFailure ==
    pc = "time_done" =>
        /\ (\/ dateparser_parse(dt_str) = ParserError
            \/ UnknownZone(tz_from)
            \/ UnknownZone(tz_to))
               => time_out = <<None, None>>
        /\ time_out[1] = None <=> time_out[2] = None
        /\ time_out[1] # None =>
               Instant(dateparser_parse(time_out[1]))
                 = Instant([wall |-> dateparser_parse(time_out[2]).wall,
                            tz |-> gettz(tz_to)])

====
